---- MODULE Spec2Model ----
(***************************************************************************)
(* Model of the question-generation endpoint of ai-study-buddy:            *)
(* POST /api/generate-questions (src/src/app/api/generate-questions/       *)
(* route.ts, lines 364-666) together with the entitlement store it reads   *)
(* and writes (tables `subscriptions` and `profiles`).                     *)
(*                                                                         *)
(* The handler is an async function.  Every action below is the code that  *)
(* runs between two awaits of one request, so that requests of the same    *)
(* identity interleave exactly where the code can be suspended.            *)
(***************************************************************************)
EXTENDS Integers, Sequences, FiniteSets, TLC

\* ------------------------------------------------------------------------
\* Program constants (lib/constants.ts)
\* ------------------------------------------------------------------------
ADMIN_EMAILS == {"gallegodimitry@gmail.com", "khinethandrazaw1998.ktz@gmail.com"}

FREE_GENERATION_LIMIT == 4

MAX_QUESTIONS == 60

MIN_QUESTIONS == 1

MAX_IMAGES == 15

\* "Start batching if requesting 10+ questions"
BATCH_THRESHOLD == 10

\* "Always use 3 batches for maximum diversity"
NUM_BATCHES == 3

\* numberOfQuestions when the body does not supply it (route.ts:441)
DEFAULT_QUESTIONS == 50

\* hard ceiling of max_tokens (route.ts:518)
TOKEN_CEILING == 16000

\* ------------------------------------------------------------------------
\* Bounds of the model
\* ------------------------------------------------------------------------
\* the clock runs over 0..MaxTime
MaxTime == 2

\* the stored free_generations_used starts in 0..MaxStored
MaxStored == 5
MaxGranted == 5

\* ------------------------------------------------------------------------
\* JavaScript values: tagged records, so that values of different types can
\* be compared.
\* ------------------------------------------------------------------------
Undef == [t |-> "undefined"]

Null == [t |-> "null"]

\* a string literal (compared as a whole)
Str(s) == [t |-> "string", v |-> s]

\* a string given character by character (notes: trim() is computed on it)
Chars(s) == [t |-> "chars", v |-> s]

Num(n) == [t |-> "number", v |-> n]

Arr(s) == [t |-> "array", v |-> s]

\* an object: a function from its own property names to values
Obj(f) == [t |-> "object", v |-> f]

IsArray(x) == x.t = "array"

\* property access obj.name : undefined when the value has no such property
Get(x, name) ==
  IF x.t = "object" /\ name \in DOMAIN x.v THEN x.v[name] ELSE Undef

\* x.length : the length of an array or of a string given by its characters,
\* the property `length` of an object, undefined for any other value
Length(x) ==
  IF x.t \in {"array", "chars"} THEN Num(Len(x.v)) ELSE Get(x, "length")

\* JavaScript truthiness (ToBoolean)
Truthy(x) ==
  CASE x.t = "undefined" -> FALSE
    [] x.t = "null"      -> FALSE
    [] x.t = "boolean"   -> x.v
    [] x.t = "number"    -> x.v # 0
    [] x.t = "string"    -> x.v # ""
    [] x.t = "chars"     -> Len(x.v) > 0
    [] OTHER             -> TRUE

\* typeof x
TypeOf(x) ==
  CASE x.t = "undefined" -> "undefined"
    [] x.t = "null"      -> "object"
    [] x.t = "boolean"   -> "boolean"
    [] x.t = "number"    -> "number"
    [] x.t \in {"string", "chars"} -> "string"
    [] OTHER             -> "object"

IsWhitespace(c) == c = " "

RECURSIVE TrimStart(_)
TrimStart(s) ==
  IF s = <<>> THEN <<>>
  ELSE IF IsWhitespace(Head(s)) THEN TrimStart(Tail(s)) ELSE s

RECURSIVE TrimEnd(_)
TrimEnd(s) ==
  IF s = <<>> THEN <<>>
  ELSE IF IsWhitespace(s[Len(s)]) THEN TrimEnd(SubSeq(s, 1, Len(s) - 1)) ELSE s

\* String.prototype.trim
Trim(s) == TrimEnd(TrimStart(s))

\* ------------------------------------------------------------------------
\* Input domains
\* ------------------------------------------------------------------------
\* the requests that can be in flight at the same time
Req == {"r1", "r2"}

\* what supabase.auth.getUser() yields: no user (with or without an error),
\* a user, or a user together with an auth error
Emails == {"gallegodimitry@gmail.com", "student@example.com"}

Sessions ==
  [user : {Null}, authError : BOOLEAN] \cup
  [user : {Str(e) : e \in Emails}, authError : BOOLEAN]

\* subscription statuses the webhook or Stripe can store
Statuses == {"active", "canceled", "expired", "past_due"}

\* the latest row of `subscriptions` for the identity, or no row
NoSubscription == [row |-> FALSE, status |-> "", current_period_end |-> 0]

Subscriptions ==
  {NoSubscription} \cup
  [row : {TRUE}, status : Statuses, current_period_end : {1}]

\* the row of `profiles` for the identity, or no row
NoProfile == [row |-> FALSE, free_generations_used |-> 0]

Profiles ==
  {NoProfile} \cup [row : {TRUE}, free_generations_used : 0..MaxStored]

\* ------------------------------------------------------------------------
\* State
\* ------------------------------------------------------------------------
VARIABLES
  now,            \* the server clock (new Date())
  subscription,   \* latest `subscriptions` row of the identity
  profile,        \* `profiles` row of the identity
  req,            \* the POST requests, one record per request in flight
  granted,        \* 200 answers given to quota-limited requests so far
  stripe,         \* Stripe's side: its subscription and undelivered events
  client          \* the browser page: access decision and selected file

vars == <<now, subscription, profile, req, granted, stripe, client>>

\* the JSON body of a request as request.json() yields it; `json` is FALSE
\* when the body is not JSON at all
NoBody ==
  [given |-> FALSE, json |-> FALSE, contentType |-> Undef, notes |-> Undef,
   images |-> Undef, numberOfQuestions |-> Undef, questionType |-> Undef]

\* the arguments of openai.chat.completions.create; `count` is the number of
\* items the user prompt asks for
NoCall ==
  [made |-> FALSE, systemPrompt |-> "", userContent |-> "undefined",
   count |-> 0, imageParts |-> 0, max_tokens |-> 0]

\* no answer of the oracle yet
NoOutcome == [kind |-> "none", status |-> 0, content |-> [t |-> "null"], finish_reason |-> ""]

\* NextResponse.json(body, {status}) : the status and the fields of the body
\* (requiresSubscription FALSE, questions/cards/count Undef: field absent)
Response(status, error, requiresSubscription, questions, cards, count) ==
  [status |-> status, error |-> error,
   requiresSubscription |-> requiresSubscription,
   questions |-> questions, cards |-> cards, numberOfQuestions |-> count]

NoResponse == Response(0, "", FALSE, Undef, Undef, Undef)

ErrorResponse(status, error) == Response(status, error, FALSE, Undef, Undef, Undef)

\* a request slot before a request arrives.  Besides the handler's locals it
\* records what the request has done so far: prompts built, oracle calls,
\* entitlement-store reads, usage writes, the profiles row when the request
\* arrived (stored0), the row and time of its subscription check and the
\* answer of the oracle (outcome).
Idle ==
  [pc |-> "idle", session |-> [user |-> Null, authError |-> FALSE],
   isAdmin |-> FALSE, isSubscribed |-> FALSE, freeUsed |-> 0,
   questionType |-> Undef, body |-> NoBody, call |-> NoCall,
   result |-> Undef, outcome |-> NoOutcome,
   prompts |-> 0, calls |-> 0, reads |-> 0, writes |-> 0,
   stored0 |-> NoProfile, checkedSub |-> NoSubscription, checkedAt |-> 0,
   resp |-> NoResponse]

\* Stripe before any checkout: no subscription, no event waiting, nothing
\* processed by the webhook
NoStripe ==
  [sub |-> [exists |-> FALSE, status |-> "", cancel_at_period_end |-> FALSE,
            current_period_end |-> 0],
   events |-> {}, log |-> <<>>]

\* no file selected
NoFile == [size |-> 0, type |-> "", name |-> <<>>]

\* the page before checkAuth has run and before a file is selected
NoClient ==
  [checked |-> FALSE, session |-> [user |-> Null, authError |-> FALSE],
   checkedAt |-> 0, canAccess |-> FALSE, redirect |-> "",
   isAuthorized |-> FALSE, isFreeTier |-> FALSE, freeGenerationsLeft |-> 0,
   validated |-> FALSE, file |-> NoFile, valid |-> FALSE, error |-> Undef]

Init ==
  /\ now = 0
  /\ subscription \in Subscriptions
  /\ profile \in Profiles
  /\ req = [r \in Req |-> Idle]
  /\ granted = 0
  /\ stripe = NoStripe
  /\ client = NoClient

\* ------------------------------------------------------------------------
\* Entitlement gate (route.ts:389-433)
\* ------------------------------------------------------------------------
\* IsAdminEmail against a list that lacks the first administrator
IsAdminEmail_ShortList(email) == email \in {"khinethandrazaw1998.ktz@gmail.com"}

\* ADMIN_EMAILS.includes(user.email)
IsAdminEmail(email) == email \in ADMIN_EMAILS

\* NotExpired with >= for >
NotExpired_Inclusive(sub, t) == sub.current_period_end >= t

\* new Date(subscription.current_period_end) > new Date()
NotExpired(sub, t) == sub.current_period_end > t

\* route.ts:412-414
IsSubscribed(sub, t) ==
  /\ sub.row
  /\ sub.status = "active" \/ sub.status = "canceled"
  /\ NotExpired(sub, t)

\* profile?.free_generations_used || 0   (route.ts:424)
FreeUsed(p) == IF p.row /\ p.free_generations_used # 0
               THEN p.free_generations_used ELSE 0

\* QuotaExceeded with > for >=
QuotaExceeded_Strict(freeUsed) == freeUsed > FREE_GENERATION_LIMIT

\* freeUsed >= FREE_GENERATION_LIMIT   (route.ts:426)
QuotaExceeded(freeUsed) == freeUsed >= FREE_GENERATION_LIMIT

\* Unauthenticated with the auth error ignored
Unauthenticated_IgnoresAuthError(s) == ~Truthy(s.user)

\* !user || authError   (route.ts:392)
Unauthenticated(s) == ~Truthy(s.user) \/ s.authError

\* A request arrives; the handler runs up to the answer of
\* supabase.auth.getUser() (route.ts:364-401).
POST_getUser(r) ==
  /\ req[r].pc \in {"idle", "done"}
  /\ \E s \in Sessions :
       LET fresh == [Idle EXCEPT !.session = s, !.stored0 = profile] IN
       IF Unauthenticated(s)
       THEN req' = [req EXCEPT ![r] =
                      [fresh EXCEPT !.pc = "done",
                         !.resp = ErrorResponse(401, "Unauthorized")]]
       ELSE LET admin == IsAdminEmail(s.user.v) IN
            req' = [req EXCEPT ![r] =
                      [fresh EXCEPT !.isAdmin = admin,
                         !.pc = IF admin THEN "body" ELSE "subscription"]]
  /\ UNCHANGED <<now, subscription, profile, granted, stripe, client>>

\* The subscriptions query answers (route.ts:403-416).
POST_subscription(r) ==
  /\ req[r].pc = "subscription"
  /\ LET subscribed == IsSubscribed(subscription, now) IN
     req' = [req EXCEPT ![r].isSubscribed = subscribed,
                        ![r].checkedSub = subscription,
                        ![r].checkedAt = now,
                        ![r].reads = @ + 1,
                        ![r].pc = IF subscribed THEN "body" ELSE "profile"]
  /\ UNCHANGED <<now, subscription, profile, granted, stripe, client>>

\* The profiles query answers (route.ts:418-432).
POST_profile(r) ==
  /\ req[r].pc = "profile"
  /\ LET used == FreeUsed(profile) IN
     IF QuotaExceeded(used)
     THEN req' = [req EXCEPT ![r].freeUsed = used, ![r].reads = @ + 1,
                    ![r].pc = "done",
                    ![r].resp = Response(403,
                      "Free trial ended. Please subscribe to continue studying.",
                      TRUE, Undef, Undef, Undef)]
     ELSE req' = [req EXCEPT ![r].freeUsed = used, ![r].reads = @ + 1,
                    ![r].pc = "body"]
  /\ UNCHANGED <<now, subscription, profile, granted, stripe, client>>

\* ------------------------------------------------------------------------
\* Request bodies
\* ------------------------------------------------------------------------
ContentTypes == {Undef, Str("text"), Str("images")}

NotesValues ==
  {Undef, Chars(<<>>), Chars(<<" ">>), Chars(<<"a">>), Chars(<<" ", "a", " ">>)}

\* images.length of the bodies tried
ImageCounts == {0, 1, MAX_IMAGES + 1}

ImagesValues == {Undef} \cup {Arr([i \in 1..k |-> Str("data:image")]) : k \in ImageCounts}

QuestionCounts ==
  {-5, MIN_QUESTIONS - 1, MIN_QUESTIONS, BATCH_THRESHOLD - 1, BATCH_THRESHOLD,
   MAX_QUESTIONS, MAX_QUESTIONS + 1, TOKEN_CEILING \div 200}

NumberValues == {Undef} \cup {Num(n) : n \in QuestionCounts}

QuestionTypes == {Undef, Str("mcq"), Str("flashcard"), Str("simple")}

Bodies ==
  [given : {TRUE}, json : {TRUE}, contentType : ContentTypes,
   notes : NotesValues, images : ImagesValues,
   numberOfQuestions : NumberValues, questionType : QuestionTypes]

\* a body request.json() cannot parse
NotJsonBody == [NoBody EXCEPT !.given = TRUE]

\* ------------------------------------------------------------------------
\* Input validation and prompt building (route.ts:435-520)
\* ------------------------------------------------------------------------
\* NumberOfQuestions with the body's field ignored
NumberOfQuestions_IgnoresBody(b) == DEFAULT_QUESTIONS

\* destructuring default: numberOfQuestions = 50 (route.ts:441)
NumberOfQuestions(b) ==
  IF b.numberOfQuestions.t = "undefined" THEN DEFAULT_QUESTIONS
  ELSE b.numberOfQuestions.v

\* destructuring default: questionType = 'mcq' (route.ts:442)
QuestionType(b) ==
  IF b.questionType.t = "undefined" THEN "mcq" ELSE b.questionType.v

\* NotesMissing without the trim()
NotesMissing_NoTrim(notes) == ~Truthy(notes)

\* !notes || notes.trim().length === 0   (route.ts:446)
NotesMissing(notes) == ~Truthy(notes) \/ Len(Trim(notes.v)) = 0

\* ImagesMissing without the length check (an empty array is truthy)
ImagesMissing_NoLength(images) == ~Truthy(images)

\* !images || images.length === 0   (route.ts:452)
ImagesMissing(images) == ~Truthy(images) \/ Length(images) = Num(0)

\* the 400 the validation answers with, "" when the input passes
\* (route.ts:445-457)
InputError(b) ==
  IF b.contentType = Str("text") /\ NotesMissing(b.notes)
  THEN "Notes are required"
  ELSE IF b.contentType = Str("images") /\ ImagesMissing(b.images)
  THEN "Images are required"
  ELSE ""

\* route.ts:468-502 : the system prompt chosen
SystemPrompt(questionType) ==
  IF questionType \in {"mcq", "flashcard"} THEN questionType ELSE ""

\* route.ts:471-502 : which user content is built; "undefined" when the
\* question type is neither 'mcq' nor 'flashcard'
UserContent(questionType, b) ==
  IF questionType \notin {"mcq", "flashcard"} THEN "undefined"
  ELSE IF b.contentType = Str("images")
  THEN (IF ~NotesMissing(b.notes) THEN "visionWithText" ELSE "vision")
  ELSE "text"

\* buildVisionContent (route.ts:345-361) : one image_url part per image
ImageParts(questionType, b) ==
  IF UserContent(questionType, b) \in {"vision", "visionWithText"}
  THEN Len(b.images.v) ELSE 0

\* route.ts:507-509
EstimatedTokensNeeded(questionType, numberOfQuestions) ==
  IF questionType = "mcq" THEN numberOfQuestions * 200 + 500
  ELSE numberOfQuestions * 100 + 500

Min(a, b) == IF a < b THEN a ELSE b

\* Math.min(estimatedTokensNeeded, 16000)   (route.ts:518)
MaxTokens(questionType, numberOfQuestions) ==
  Min(EstimatedTokensNeeded(questionType, numberOfQuestions), TOKEN_CEILING)

\* The body is read and validated; the prompts are built and the oracle is
\* called (route.ts:435-520).  `key` is process.env.OPENAI_API_KEY being set.
POST_body(r, bodies) ==
  /\ req[r].pc = "body"
  /\ \E b \in bodies, key \in BOOLEAN :
       LET questionType == QuestionType(b)
           n == NumberOfQuestions(b)
           content == UserContent(questionType, b)
       IN
       IF ~b.json
       THEN req' = [req EXCEPT ![r].body = b, ![r].pc = "done",
                      ![r].resp = ErrorResponse(500,
                        "Failed to generate questions. Please try again.")]
       ELSE IF InputError(b) # ""
       THEN req' = [req EXCEPT ![r].body = b, ![r].pc = "done",
                      ![r].resp = ErrorResponse(400, InputError(b))]
       ELSE IF ~key
       THEN req' = [req EXCEPT ![r].body = b, ![r].pc = "done",
                      ![r].resp = ErrorResponse(500, "Server configuration error")]
       ELSE req' = [req EXCEPT ![r].body = b, ![r].pc = "oracle",
                      ![r].questionType = Str(questionType),
                      ![r].prompts = IF content = "undefined" THEN @ ELSE @ + 1,
                      ![r].calls = @ + 1,
                      ![r].call =
                        [made |-> TRUE,
                         systemPrompt |-> SystemPrompt(questionType),
                         userContent |-> content,
                         count |-> IF content = "undefined" THEN 0 ELSE n,
                         imageParts |-> ImageParts(questionType, b),
                         max_tokens |-> MaxTokens(questionType, n)]]
  /\ UNCHANGED <<now, subscription, profile, granted, stripe, client>>

\* ------------------------------------------------------------------------
\* What the oracle (openai.chat.completions.create) can answer
\* ------------------------------------------------------------------------
GoodQuestion(id) ==
  Obj([id |-> Num(id), question |-> Str("q"),
       options |-> Arr(<<Str("A"), Str("B"), Str("C"), Str("D")>>),
       correctAnswer |-> Str("A"), explanation |-> Str("e")])

ThreeOptions(id) ==
  Obj([id |-> Num(id), question |-> Str("q"),
       options |-> Arr(<<Str("A"), Str("B"), Str("C")>>),
       correctAnswer |-> Str("A"), explanation |-> Str("e")])

\* a question like GoodQuestion but for its options
WithOptions(id, options) ==
  Obj([id |-> Num(id), question |-> Str("q"), options |-> options,
       correctAnswer |-> Str("A"), explanation |-> Str("e")])

NoOptions(id) == WithOptions(id, Arr(<<>>))

FiveOptions(id) ==
  WithOptions(id, Arr(<<Str("A"), Str("B"), Str("C"), Str("D"), Str("E")>>))

\* options: "ABCD", a string of length 4
StringOptions(id) == WithOptions(id, Chars(<<"A", "B", "C", "D">>))

\* options: [1, 2, 3, 4]
NumericOptions(id) == WithOptions(id, Arr(<<Num(1), Num(2), Num(3), Num(4)>>))

GoodCard(id) ==
  Obj([id |-> Num(id), question |-> Str("q"), answer |-> Str("a")])

NoAnswerCard(id) ==
  Obj([id |-> Num(id), question |-> Str("q")])

\* hint: 0, present and not a string
ZeroHintCard(id) ==
  Obj([id |-> Num(id), question |-> Str("q"), answer |-> Str("a"), hint |-> Num(0)])

\* the values the completion's content can be the JSON text of
Payloads ==
  { Obj([questions |-> Arr(<<GoodQuestion(1), GoodQuestion(2)>>)]),
    Obj([questions |-> Arr(<<GoodQuestion(1), ThreeOptions(2)>>)]),
    Obj([questions |-> Arr(<<>>)]),
    Arr(<<GoodQuestion(1)>>),
    Obj([cards |-> Arr(<<GoodCard(1), GoodCard(2)>>)]),
    Obj([cards |-> Arr(<<GoodCard(1), NoAnswerCard(2)>>)]),
    Obj([cards |-> Arr(<<>>)]),
    Obj([error |-> Str("cannot read the notes")]),
    Null,
    Obj([questions |-> Arr(<<NoOptions(1), GoodQuestion(2)>>)]),
    Obj([questions |-> Arr(<<GoodQuestion(1), FiveOptions(2)>>)]),
    Obj([questions |-> Arr(<<GoodQuestion(1), StringOptions(2)>>)]),
    Obj([questions |-> Arr(<<GoodQuestion(1), NumericOptions(2)>>)]),
    Obj([questions |-> Arr(<<GoodQuestion(2), GoodQuestion(2)>>)]),
    Obj([cards |-> Arr(<<GoodCard(1), ZeroHintCard(2)>>)]),
    Obj([cards |-> Arr(<<GoodCard(3), GoodCard(1)>>)]),
    Arr(<<GoodQuestion(1), GoodCard(2)>>) }

\* content that is the JSON text of value p / text that is not JSON
Json(p) == [t |-> "json", v |-> p]

NotJson == [t |-> "text"]

\* a completion that ended by itself (finish_reason 'stop')
Completion(content) ==
  [kind |-> "completion", status |-> 0, content |-> content, finish_reason |-> "stop"]

\* a completion cut off at max_tokens (finish_reason 'length')
Truncated(content) == [Completion(content) EXCEPT !.finish_reason = "length"]

\* the SDK throws an error carrying the HTTP status of the oracle's answer
ApiError(status) ==
  [kind |-> "error", status |-> status, content |-> Null, finish_reason |-> ""]

ErrorStatuses == {400, 401, 429, 500}

\* the completions cut off at max_tokens: the JSON text is broken, or the
\* ceiling fell after the closing bracket of a shorter collection
TruncatedOutcomes ==
  { Truncated(NotJson),
    Truncated(Json(Obj([questions |-> Arr(<<GoodQuestion(1), GoodQuestion(2)>>)]))),
    Truncated(Json(Obj([cards |-> Arr(<<GoodCard(1), GoodCard(2)>>)]))) }

Outcomes ==
  {ApiError(st) : st \in ErrorStatuses} \cup
  {Completion(Null), Completion(Str("")), Completion(NotJson)} \cup
  {Completion(Json(p)) : p \in Payloads} \cup
  TruncatedOutcomes

\* ------------------------------------------------------------------------
\* Parsing and validation of the completion (route.ts:531-621)
\* ------------------------------------------------------------------------
\* JSON.parse(responseContent) throws, or reading a property of the parsed
\* null throws inside the same try block (route.ts:540-551)
ParseFails(content) == content.t # "json" \/ content.v.t \in {"null", "undefined"}

\* parsed.cards || parsed  /  parsed.questions || parsed   (route.ts:543-547)
Collection(questionType, parsed) ==
  LET named == Get(parsed, IF questionType = "flashcard" THEN "cards" ELSE "questions")
  IN IF Truthy(named) THEN named ELSE parsed

\* coll[i], i counted from 1
ItemAt(coll, i) ==
  IF coll.t = "array" THEN coll.v[i]
  ELSE IF coll.t = "chars" THEN Chars(<<coll.v[i]>>)
  ELSE Undef

\* ValidQuestion without the check of options.length
ValidQuestion_NoLengthCheck(q) ==
  /\ q.t \notin {"null", "undefined"}
  /\ Truthy(Get(q, "id")) /\ Truthy(Get(q, "question")) /\ Truthy(Get(q, "options"))
  /\ Truthy(Get(q, "correctAnswer")) /\ Truthy(Get(q, "explanation"))
  /\ TypeOf(Get(q, "id")) = "number"
  /\ TypeOf(Get(q, "question")) = "string"
  /\ IsArray(Get(q, "options"))
  /\ TypeOf(Get(q, "correctAnswer")) = "string"
  /\ TypeOf(Get(q, "explanation")) = "string"

\* route.ts:567-588 : the question passes every check (reading a property of
\* null or undefined throws)
ValidQuestion(q) ==
  /\ q.t \notin {"null", "undefined"}
  /\ Truthy(Get(q, "id")) /\ Truthy(Get(q, "question")) /\ Truthy(Get(q, "options"))
  /\ Truthy(Get(q, "correctAnswer")) /\ Truthy(Get(q, "explanation"))
  /\ TypeOf(Get(q, "id")) = "number"
  /\ TypeOf(Get(q, "question")) = "string"
  /\ IsArray(Get(q, "options")) /\ Length(Get(q, "options")) = Num(4)
  /\ TypeOf(Get(q, "correctAnswer")) = "string"
  /\ TypeOf(Get(q, "explanation")) = "string"

\* route.ts:603-619
ValidCard(c) ==
  /\ c.t \notin {"null", "undefined"}
  /\ Truthy(Get(c, "id")) /\ Truthy(Get(c, "question")) /\ Truthy(Get(c, "answer"))
  /\ TypeOf(Get(c, "id")) = "number"
  /\ TypeOf(Get(c, "question")) = "string"
  /\ TypeOf(Get(c, "answer")) = "string"
  /\ ~(Truthy(Get(c, "hint")) /\ TypeOf(Get(c, "hint")) # "string")

\* the indices the validation loop visits: i < coll.length is false at once
\* when coll.length is undefined
LoopIndices(coll) ==
  IF Length(coll).t = "number" THEN 1..Length(coll).v ELSE {}

\* route.ts:556-621 : the validation throws
ValidationFails(questionType, coll) ==
  IF questionType = "mcq"
  THEN Length(coll) = Num(0) \/ \E i \in LoopIndices(coll) : ~ValidQuestion(ItemAt(coll, i))
  ELSE IF questionType = "flashcard"
  THEN Length(coll) = Num(0) \/ \E i \in LoopIndices(coll) : ~ValidCard(ItemAt(coll, i))
  ELSE FALSE

\* CatchResponse without the branch for status 429
CatchResponse_NoRateLimitBranch(st) ==
  IF st = 401 THEN ErrorResponse(500, "Invalid API key")
  ELSE ErrorResponse(500, "Failed to generate questions. Please try again.")

\* route.ts:643-665 : the response of the catch block for a thrown error
\* whose `status` is st (0: the error carries no status)
CatchResponse(st) ==
  IF st = 401 THEN ErrorResponse(500, "Invalid API key")
  ELSE IF st = 429 THEN ErrorResponse(429, "Rate limit exceeded. Please try again later.")
  ELSE ErrorResponse(500, "Failed to generate questions. Please try again.")

\* SuccessResponse reading result.questions.length without the guard of
\* route.ts:636 : for flashcards the read throws after the usage write and the
\* catch block answers
SuccessResponse_UnguardedLength(questionType, coll) ==
  IF questionType = "flashcard" THEN CatchResponse(0)
  ELSE Response(200, "", FALSE, coll, Undef,
                IF Truthy(coll) THEN Length(coll) ELSE Num(0))

\* route.ts:631-642 : the 200 response for the validated collection
SuccessResponse(questionType, coll) ==
  IF questionType = "flashcard"
  THEN Response(200, "", FALSE, Undef, coll,
                IF Truthy(coll) THEN Length(coll) ELSE Num(0))
  ELSE Response(200, "", FALSE, coll, Undef,
                IF Truthy(coll) THEN Length(coll) ELSE Num(0))

\* QuotaLimited with the subscription forgotten
QuotaLimited_IgnoresSubscription(q) == ~q.isAdmin

\* route.ts:624 : the caller is metered
QuotaLimited(q) == ~q.isAdmin /\ ~q.isSubscribed

\* The oracle answers; the completion is parsed and validated
\* (route.ts:520-624).  The body is not read after the call.
POST_completion(r, outcomes) ==
  /\ req[r].pc = "oracle"
  /\ \E o \in outcomes :
       LET questionType == req[r].questionType.v
           done == [req[r] EXCEPT !.pc = "done", !.body = NoBody, !.outcome = o]
       IN
       IF o.kind = "error"
       THEN req' = [req EXCEPT ![r] = [done EXCEPT !.resp = CatchResponse(o.status)]]
       ELSE IF ~Truthy(o.content) \/ ParseFails(o.content)
       THEN req' = [req EXCEPT ![r] = [done EXCEPT !.resp = CatchResponse(0)]]
       ELSE LET coll == Collection(questionType, o.content.v) IN
            IF ValidationFails(questionType, coll)
            THEN req' = [req EXCEPT ![r] = [done EXCEPT !.resp = CatchResponse(0)]]
            ELSE IF QuotaLimited(req[r])
            THEN req' = [req EXCEPT ![r] =
                           [done EXCEPT !.pc = "update", !.result = coll]]
            ELSE req' = [req EXCEPT ![r] =
                           [done EXCEPT !.result = coll,
                              !.resp = SuccessResponse(questionType, coll)]]
  /\ UNCHANGED <<now, subscription, profile, granted, stripe, client>>

\* UpdateProfile as an increment of the stored value
UpdateProfile_Increment(p, v) ==
  IF p.row THEN [p EXCEPT !.free_generations_used = @ + 1] ELSE p

\* profiles.update({free_generations_used: v}).eq('id', user.id) : an UPDATE
\* of the rows that match
UpdateProfile(p, v) == IF p.row THEN [p EXCEPT !.free_generations_used = v] ELSE p

\* The usage write completes and the 200 is returned (route.ts:623-642).
POST_update(r) ==
  /\ req[r].pc = "update"
  /\ profile' = UpdateProfile(profile, req[r].freeUsed + 1)
  /\ req' = [req EXCEPT ![r].pc = "done", ![r].writes = @ + 1,
               ![r].resp = SuccessResponse(req[r].questionType.v, req[r].result)]
  /\ granted' = IF granted < MaxGranted THEN granted + 1 ELSE granted
  /\ UNCHANGED <<now, subscription, stripe, client>>

\* time passes
Tick ==
  /\ now < MaxTime
  /\ now' = now + 1
  /\ UNCHANGED <<subscription, profile, req, granted, stripe, client>>

\* ------------------------------------------------------------------------
\* Specification Spec: the requests of one identity, handled one after the
\* other, over every state of the entitlement store and a few bodies.
\* ------------------------------------------------------------------------
TextBody ==
  [given |-> TRUE, json |-> TRUE, contentType |-> Str("text"),
   notes |-> Chars(<<" ", "a", " ">>), images |-> Undef,
   numberOfQuestions |-> Num(MIN_QUESTIONS), questionType |-> Str("mcq")]

ImagesBody ==
  [given |-> TRUE, json |-> TRUE, contentType |-> Str("images"),
   notes |-> Undef, images |-> Arr(<<Str("data:image")>>),
   numberOfQuestions |-> Undef, questionType |-> Str("flashcard")]

BlankNotesBody == [TextBody EXCEPT !.notes = Chars(<<" ">>)]

GateBodies == {TextBody, ImagesBody, BlankNotesBody}

Next ==
  \/ Tick
  \/ POST_getUser("r1")
  \/ POST_subscription("r1")
  \/ POST_profile("r1")
  \/ POST_body("r1", GateBodies)
  \/ POST_completion("r1", Outcomes)
  \/ POST_update("r1")

Spec == Init /\ [][Next]_vars

\* ------------------------------------------------------------------------
\* Specification PipelineSpec: one request after the other over every body,
\* from the states of the store that lead into each branch of the gate.
\* ------------------------------------------------------------------------
PipelineSubscriptions ==
  {NoSubscription, [row |-> TRUE, status |-> "active", current_period_end |-> 1]}

PipelineProfiles ==
  {NoProfile} \cup
  [row : {TRUE},
   free_generations_used : {FREE_GENERATION_LIMIT - 1, FREE_GENERATION_LIMIT}]

PipelineInit ==
  /\ now = 0
  /\ subscription \in PipelineSubscriptions
  /\ profile \in PipelineProfiles
  /\ req = [r \in Req |-> Idle]
  /\ granted = 0
  /\ stripe = NoStripe
  /\ client = NoClient

PipelineNext ==
  \/ POST_getUser("r1")
  \/ POST_subscription("r1")
  \/ POST_profile("r1")
  \/ POST_body("r1", Bodies \cup {NotJsonBody})
  \/ POST_completion("r1", Outcomes)
  \/ POST_update("r1")

PipelineSpec == PipelineInit /\ [][PipelineNext]_vars

\* ------------------------------------------------------------------------
\* File validation in the browser (fileParser.ts:125-144)
\* ------------------------------------------------------------------------
MAX_FILE_SIZE_MB == 10
MAX_FILE_SIZE == MAX_FILE_SIZE_MB * 1024 * 1024

SUPPORTED_IMAGE_TYPES == {"image/jpeg", "image/png", "image/webp", "image/gif"}
SUPPORTED_TEXT_TYPES == {"text/plain"}
SUPPORTED_PDF_TYPES == {"application/pdf"}

\* String.prototype.toLowerCase over the letters that occur in file names
LowerCaseOf(c) ==
  CASE c = "A" -> "a" [] c = "D" -> "d" [] c = "F" -> "f" [] c = "G" -> "g"
    [] c = "J" -> "j" [] c = "M" -> "m" [] c = "P" -> "p" [] c = "T" -> "t"
    [] c = "X" -> "x" [] OTHER -> c

ToLowerCase(name) == [i \in 1..Len(name) |-> LowerCaseOf(name[i])]

\* String.prototype.endsWith
EndsWith(name, suffix) ==
  /\ Len(suffix) <= Len(name)
  /\ SubSeq(name, Len(name) - Len(suffix) + 1, Len(name)) = suffix

\* /\.(jpg|jpeg|png|gif|webp)$/.test(fileName)
ImageExtension(fileName) ==
  \E ext \in {<<".", "j", "p", "g">>, <<".", "j", "p", "e", "g">>,
              <<".", "p", "n", "g">>, <<".", "g", "i", "f">>,
              <<".", "w", "e", "b", "p">>} : EndsWith(fileName, ext)

\* TooLarge with >= for >
TooLarge_Inclusive(size) == size >= MAX_FILE_SIZE

\* file.size > MAX_FILE_SIZE
TooLarge(size) == size > MAX_FILE_SIZE

\* the type test of validateFile: MIME type or extension of the lower-cased
\* name
IsValidType(file) ==
  LET fileName == ToLowerCase(file.name) IN
  \/ file.type \in SUPPORTED_IMAGE_TYPES
  \/ file.type \in SUPPORTED_TEXT_TYPES
  \/ file.type \in SUPPORTED_PDF_TYPES
  \/ EndsWith(fileName, <<".", "p", "d", "f">>)
  \/ EndsWith(fileName, <<".", "t", "x", "t">>)
  \/ EndsWith(fileName, <<".", "m", "d">>)
  \/ ImageExtension(fileName)

\* validateFile(file) : {valid, error}
validateFile(file) ==
  IF TooLarge(file.size)
  THEN [valid |-> FALSE,
        error |-> Str("File size must be less than "
                        \o ToString(MAX_FILE_SIZE_MB) \o "MB")]
  ELSE [valid |-> IsValidType(file),
        error |-> IF IsValidType(file) THEN Undef
                  ELSE Str("Supported formats PDF, Images (JPG, PNG, GIF, WEBP), and Text (TXT, MD)")]

\* the files a user selects: sizes around the limit, MIME types the browser
\* reports (possibly none), names with and without a supported extension
FileSizes ==
  {0, 1024, 5 * 1024 * 1024, MAX_FILE_SIZE - 1, MAX_FILE_SIZE,
   MAX_FILE_SIZE + 1, 11 * 1024 * 1024}

FileTypes ==
  {"application/pdf", "text/plain", "image/png", "image/jpeg", "",
   "application/x-msdownload"}

FileNames ==
  {<<"t", "e", "s", "t", ".", "p", "d", "f">>,
   <<"n", "o", "t", "e", "s", ".", "T", "x", "T">>,
   <<"a", ".", "M", "D">>,
   <<"p", ".", "J", "P", "G">>,
   <<"a", ".", "e", "x", "e">>,
   <<"p", "d", "f">>}

Files == [size : FileSizes, type : FileTypes, name : FileNames]

\* A file is selected and validated (InputSection.tsx:49, page.tsx:180).
handleFileSelect ==
  /\ \E file \in Files :
       client' = [client EXCEPT !.validated = TRUE, !.file = file,
                    !.valid = validateFile(file).valid,
                    !.error = validateFile(file).error]
  /\ UNCHANGED <<now, subscription, profile, req, granted, stripe>>

\* Specification FileSpec: the page validates one selected file after the
\* other.
FileInit ==
  /\ now = 0
  /\ subscription = NoSubscription
  /\ profile = NoProfile
  /\ req = [r \in Req |-> Idle]
  /\ granted = 0
  /\ stripe = NoStripe
  /\ client = NoClient

FileNext == handleFileSelect

FileSpec == FileInit /\ [][FileNext]_vars

\* ------------------------------------------------------------------------
\* Access decision in the browser (auth.ts:46-107, page.tsx:48-100)
\* ------------------------------------------------------------------------
\* isAdmin(email) with its own list of administrators (auth.ts:46-53)
isAdmin(email) ==
  email \in {"gallegodimitry@gmail.com", "khinethandrazaw1998.ktz@gmail.com"}

\* hasActiveSubscription(userId) over the latest subscriptions row
\* (auth.ts:58-78)
hasActiveSubscription(sub, t) ==
  IF ~sub.row THEN FALSE
  ELSE LET isActive == sub.status \in {"active", "canceled"}
           notExpired == sub.current_period_end > t
       IN isActive /\ notExpired

\* getFreeGenerationsUsed(userId) over the profiles row (auth.ts:83-92)
getFreeGenerationsUsed(p) == IF ~p.row THEN 0 ELSE p.free_generations_used

\* hasAccessToGenerate(userId, userEmail) (auth.ts:97-107)
hasAccessToGenerate(email, sub, p, t) ==
  IF isAdmin(email) THEN TRUE
  ELSE IF hasActiveSubscription(sub, t) THEN TRUE
  ELSE getFreeGenerationsUsed(p) < 2

\* The page loads and checkAuth runs to its end (page.tsx:48-100); its
\* queries are answered from the store as it is at that moment.
checkAuth ==
  /\ \E s \in Sessions :
       LET page == [NoClient EXCEPT !.checked = TRUE, !.session = s,
                      !.checkedAt = now]
       IN
       IF ~Truthy(s.user) \/ s.authError
       THEN client' = [page EXCEPT !.redirect = "/login"]
       ELSE LET canAccess == hasAccessToGenerate(s.user.v, subscription,
                                                 profile, now)
            IN
            IF ~canAccess
            THEN client' = [page EXCEPT !.redirect = "/subscribe"]
            ELSE IF isAdmin(s.user.v) \/ hasActiveSubscription(subscription, now)
            THEN client' = [page EXCEPT !.canAccess = TRUE,
                              !.isAuthorized = TRUE]
            ELSE client' = [page EXCEPT !.canAccess = TRUE,
                              !.isAuthorized = TRUE, !.isFreeTier = TRUE,
                              !.freeGenerationsLeft =
                                 2 - getFreeGenerationsUsed(profile)]
  /\ UNCHANGED <<now, subscription, profile, req, granted, stripe>>

\* Specification AccessSpec: the page decides, and the server gate decides
\* for requests of the same identity, over every state of the store.
AccessNext ==
  \/ Tick
  \/ checkAuth
  \/ POST_getUser("r1")
  \/ POST_subscription("r1")
  \/ POST_profile("r1")
  \/ POST_body("r1", {BlankNotesBody})

AccessSpec == Init /\ [][AccessNext]_vars

\* ------------------------------------------------------------------------
\* Specification RaceSpec: two requests of one identity without subscription
\* run concurrently, every step of one interleaved with the steps of the
\* other.
\* ------------------------------------------------------------------------
RaceProfiles == [row : {TRUE}, free_generations_used : 0..FREE_GENERATION_LIMIT]

\* the oracle answers a valid collection, or fails
RaceOutcomes ==
  {Completion(Json(Obj([questions |-> Arr(<<GoodQuestion(1), GoodQuestion(2)>>)]))),
   ApiError(429)}

RaceInit ==
  /\ now = 0
  /\ subscription = NoSubscription
  /\ profile \in RaceProfiles
  /\ req = [r \in Req |-> Idle]
  /\ granted = 0
  /\ stripe = NoStripe
  /\ client = NoClient

RaceNext ==
  \E r \in Req :
    \/ POST_getUser(r)
    \/ POST_subscription(r)
    \/ POST_profile(r)
    \/ POST_body(r, {TextBody})
    \/ POST_completion(r, RaceOutcomes)
    \/ POST_update(r)

RaceSpec == RaceInit /\ [][RaceNext]_vars

\* ------------------------------------------------------------------------
\* Specification QuotaSpec: the requests of one identity without
\* subscription, one after the other, from a profiles row that counts 0.
\* ------------------------------------------------------------------------
QuotaInit ==
  /\ now = 0
  /\ subscription = NoSubscription
  /\ profile = [row |-> TRUE, free_generations_used |-> 0]
  /\ req = [r \in Req |-> Idle]
  /\ granted = 0
  /\ stripe = NoStripe
  /\ client = NoClient

QuotaNext ==
  \/ POST_getUser("r1")
  \/ POST_subscription("r1")
  \/ POST_profile("r1")
  \/ POST_body("r1", GateBodies)
  \/ POST_completion("r1", RaceOutcomes)
  \/ POST_update("r1")

QuotaSpec == QuotaInit /\ [][QuotaNext]_vars

\* ------------------------------------------------------------------------
\* Stripe and its webhook (stripe-webhook/route.ts:39-186)
\* ------------------------------------------------------------------------
\* The user pays: Stripe creates an active subscription that runs to a later
\* period end and emits checkout.session.completed.
Stripe_checkout ==
  /\ ~stripe.sub.exists
  /\ \E periodEnd \in {t \in 1..MaxTime : t > now} :
       stripe' = [stripe EXCEPT
                    !.sub = [exists |-> TRUE, status |-> "active",
                             cancel_at_period_end |-> FALSE,
                             current_period_end |-> periodEnd],
                    !.events = @ \cup {"checkout.session.completed"}]
  /\ UNCHANGED <<now, subscription, profile, req, granted, client>>

\* The user cancels for the end of the paid period: Stripe keeps the
\* subscription active, sets cancel_at_period_end and emits
\* customer.subscription.updated.
Stripe_cancelAtPeriodEnd ==
  /\ stripe.sub.exists /\ stripe.sub.status = "active"
  /\ ~stripe.sub.cancel_at_period_end
  /\ stripe' = [stripe EXCEPT !.sub.cancel_at_period_end = TRUE,
                  !.events = @ \cup {"customer.subscription.updated"}]
  /\ UNCHANGED <<now, subscription, profile, req, granted, client>>

\* The subscription ends, at the period end or at once: its Stripe status
\* becomes 'canceled' and Stripe emits customer.subscription.deleted.
Stripe_end ==
  /\ stripe.sub.exists /\ stripe.sub.status = "active"
  /\ stripe' = [stripe EXCEPT !.sub.status = "canceled",
                  !.events = @ \cup {"customer.subscription.deleted"}]
  /\ UNCHANGED <<now, subscription, profile, req, granted, client>>

\* getCurrentPeriodEnd(subscription) (stripe-webhook/route.ts:24-36)
getCurrentPeriodEnd(sub) == sub.current_period_end

\* the event leaves Stripe's queue and is recorded as processed
Delivered(type) ==
  [stripe EXCEPT !.events = @ \ {type}, !.log = Append(@, type)]

\* case 'checkout.session.completed' (stripe-webhook/route.ts:64-107): the
\* subscription is retrieved and a row with status 'active' is upserted
checkout_session_completed ==
  /\ "checkout.session.completed" \in stripe.events
  /\ subscription' = [row |-> TRUE, status |-> "active",
                      current_period_end |-> getCurrentPeriodEnd(stripe.sub)]
  /\ stripe' = Delivered("checkout.session.completed")
  /\ UNCHANGED <<now, profile, req, granted, client>>

\* the status stored by the update handler (stripe-webhook/route.ts:117-120)
ActualStatus(sub) == IF sub.cancel_at_period_end THEN "canceled" ELSE sub.status

\* case 'customer.subscription.updated' (stripe-webhook/route.ts:109-144):
\* the subscription is retrieved from Stripe as it is now and the row of that
\* subscription, if there is one, is updated
customer_subscription_updated ==
  /\ "customer.subscription.updated" \in stripe.events
  /\ subscription' =
       IF subscription.row
       THEN [subscription EXCEPT !.status = ActualStatus(stripe.sub),
               !.current_period_end = getCurrentPeriodEnd(stripe.sub)]
       ELSE subscription
  /\ stripe' = Delivered("customer.subscription.updated")
  /\ UNCHANGED <<now, profile, req, granted, client>>

\* case 'customer.subscription.deleted' (stripe-webhook/route.ts:146-172):
\* the row of the subscription, if there is one, becomes 'expired'
customer_subscription_deleted ==
  /\ "customer.subscription.deleted" \in stripe.events
  /\ subscription' =
       IF subscription.row
       THEN [subscription EXCEPT !.status = "expired",
               !.current_period_end = getCurrentPeriodEnd(stripe.sub)]
       ELSE subscription
  /\ stripe' = Delivered("customer.subscription.deleted")
  /\ UNCHANGED <<now, profile, req, granted, client>>

\* Specification BillingSpec: one subscription from checkout to its end, the
\* webhook processing Stripe's events in whatever order they arrive, and the
\* generation gate deciding for the requests of the user.
BillingProfiles ==
  [row : {TRUE}, free_generations_used : {0, FREE_GENERATION_LIMIT}]

BillingInit ==
  /\ now = 0
  /\ subscription = NoSubscription
  /\ profile \in BillingProfiles
  /\ req = [r \in Req |-> Idle]
  /\ granted = 0
  /\ stripe = NoStripe
  /\ client = NoClient

BillingNext ==
  \/ Tick
  \/ Stripe_checkout
  \/ Stripe_cancelAtPeriodEnd
  \/ Stripe_end
  \/ checkout_session_completed
  \/ customer_subscription_updated
  \/ customer_subscription_deleted
  \/ POST_getUser("r1")
  \/ POST_subscription("r1")
  \/ POST_profile("r1")
  \/ POST_body("r1", {BlankNotesBody})

BillingSpec == BillingInit /\ [][BillingNext]_vars

\* ------------------------------------------------------------------------
\* Properties
\* ------------------------------------------------------------------------
\* the request has arrived
Arrived(r) == req[r].pc # "idle"

\* the request has been answered
Answered(r) == req[r].pc = "done"

\* the request left the stored row of the identity as it found it
StoreUntouched(r) == req[r].writes = 0 /\ profile = req[r].stored0

\* C1: a request whose session yields no user, or an auth error, is answered
\* 401 Unauthorized at once: no oracle call, no read of the entitlement
\* store, no usage write, and the body is not even read.
C1_UnauthorizedShortCircuit ==
  \A r \in Req :
    (Arrived(r) /\ (req[r].session.user = Null \/ req[r].session.authError))
      => /\ Answered(r)
         /\ req[r].resp.status = 401
         /\ req[r].resp.error = "Unauthorized"
         /\ req[r].calls = 0 /\ req[r].prompts = 0
         /\ req[r].reads = 0
         /\ ~req[r].body.given
         /\ StoreUntouched(r)

\* C1 witness: a session with a user and an auth error was answered 401
C1_Witness ==
  \E r \in Req :
    /\ Answered(r) /\ req[r].resp.status = 401
    /\ req[r].session.user # Null /\ req[r].session.authError

\* C2: a caller that is neither admin nor subscribed and whose stored
\* free_generations_used is at or above FREE_GENERATION_LIMIT when the request
\* arrives is answered 403 with requiresSubscription, without any oracle call
\* and with the stored counter unchanged.
C2_QuotaExceededRejected ==
  \A r \in Req :
    (/\ req[r].reads = 2
     /\ req[r].stored0.row
     /\ req[r].stored0.free_generations_used >= FREE_GENERATION_LIMIT)
      => /\ Answered(r)
         /\ req[r].resp.status = 403
         /\ req[r].resp.requiresSubscription
         /\ req[r].calls = 0 /\ req[r].prompts = 0
         /\ ~req[r].body.given
         /\ StoreUntouched(r)

\* C2 witness: a metered caller with exactly FREE_GENERATION_LIMIT used was
\* answered 403
C2_Witness ==
  \E r \in Req :
    /\ Answered(r) /\ req[r].resp.status = 403
    /\ ~req[r].isAdmin /\ ~req[r].isSubscribed
    /\ req[r].stored0.row
    /\ req[r].stored0.free_generations_used = FREE_GENERATION_LIMIT

\* C3: a request answered with anything but 200 has not written the caller's
\* free_generations_used.
C3_NoDebitOnError ==
  \A r \in Req :
    (Answered(r) /\ req[r].resp.status # 200) => StoreUntouched(r)

\* C3 witness: a metered caller's request failed after its oracle call
C3_Witness ==
  \E r \in Req :
    /\ Answered(r) /\ req[r].resp.status = 500
    /\ req[r].calls = 1 /\ req[r].reads = 2
    /\ req[r].questionType = Str("flashcard")

\* the caller's email is in the administrator allow-list
AdminCaller(r) ==
  /\ req[r].session.user # Null
  /\ req[r].session.user.v \in ADMIN_EMAILS

\* C4 (as claimed): a 200 answered to a metered caller has raised the stored
\* free_generations_used (a missing row counting as 0) by exactly 1 over its
\* value when the request arrived.
C4_EachSuccessDebitsOne ==
  \A r \in Req :
    (/\ Answered(r) /\ req[r].resp.status = 200
     /\ ~req[r].isAdmin /\ ~req[r].isSubscribed)
      => (IF profile.row THEN profile.free_generations_used ELSE 0)
           = (IF req[r].stored0.row THEN req[r].stored0.free_generations_used ELSE 0) + 1

\* C5: a request of an admin or of a subscribed caller never writes
\* free_generations_used; a usage write is issued only for a caller that was
\* metered at authorization, only once, after the oracle call and after the
\* collection has passed the validation, and the request it belongs to is
\* answered 200.
C5_OnlyMeteredSuccessWrites ==
  \A r \in Req :
    /\ (AdminCaller(r) \/ req[r].isSubscribed)
         => (req[r].pc # "update" /\ StoreUntouched(r))
    /\ (req[r].pc = "update" \/ req[r].writes > 0)
         => /\ ~AdminCaller(r) /\ ~req[r].isSubscribed
            /\ req[r].reads = 2
            /\ req[r].freeUsed < FREE_GENERATION_LIMIT
            /\ req[r].calls = 1
            /\ req[r].writes = IF req[r].pc = "update" THEN 0 ELSE 1
            /\ req[r].questionType.v \in {"mcq", "flashcard"}
                 => ~ValidationFails(req[r].questionType.v, req[r].result)
            /\ Answered(r) => req[r].resp.status = 200

\* C5 witness: a subscribed caller was answered 200 and nothing was written
C5_Witness ==
  \E r \in Req :
    /\ Answered(r) /\ req[r].resp.status = 200
    /\ req[r].isSubscribed /\ ~AdminCaller(r)
    /\ StoreUntouched(r)

\* C6: a non-admin caller is treated as subscribed exactly when the latest
\* subscription row exists, its status is 'active' or 'canceled' and its
\* current_period_end is strictly later than the time of the check; in every
\* other case the caller goes on to the free-tier quota check.
C6_ActiveForAccess ==
  \A r \in Req :
    req[r].reads >= 1
      => LET sub == req[r].checkedSub
             active == /\ sub.row
                       /\ sub.status \in {"active", "canceled"}
                       /\ sub.current_period_end > req[r].checkedAt
             metered == req[r].pc = "profile" \/ req[r].reads = 2
         IN /\ ~AdminCaller(r)
            /\ req[r].isSubscribed <=> active
            /\ metered <=> ~active

\* C6 witness: a canceled subscription whose period has not ended gave access
\* without the quota check
C6_Witness ==
  \E r \in Req :
    /\ req[r].isSubscribed /\ req[r].reads = 1 /\ req[r].pc = "body"
    /\ req[r].checkedSub.status = "canceled"
    /\ req[r].checkedSub.current_period_end > req[r].checkedAt

\* C7: a caller whose email is in the administrator allow-list is never
\* answered 403, whatever the stored subscription and usage; the store is not
\* even queried.
C7_AdminNeverQuotaRejected ==
  \A r \in Req :
    (Arrived(r) /\ AdminCaller(r) /\ ~req[r].session.authError)
      => /\ req[r].resp.status # 403
         /\ ~req[r].resp.requiresSubscription
         /\ req[r].reads = 0
         /\ req[r].pc \notin {"subscription", "profile"}

\* C7 witness: an admin whose stored usage is at the limit and who has no
\* active subscription was answered 200
C7_Witness ==
  \E r \in Req :
    /\ Answered(r) /\ req[r].resp.status = 200 /\ AdminCaller(r)
    /\ profile.row /\ profile.free_generations_used >= FREE_GENERATION_LIMIT
    /\ subscription.row /\ subscription.status = "expired"

\* the handler has read a JSON body
BodyRead(r) == req[r].body.given /\ req[r].body.json

\* C8 (as claimed): a request whose numberOfQuestions is outside
\* MIN_QUESTIONS..MAX_QUESTIONS is answered 400 and never reaches the oracle
\* (a server without its API key answers 500 to every request: that answer is
\* not held against the claim).
C8_OutOfRangeRejected ==
  \A r \in Req :
    (/\ BodyRead(r)
     /\ req[r].body.numberOfQuestions.t = "number"
     /\ req[r].body.numberOfQuestions.v \notin MIN_QUESTIONS..MAX_QUESTIONS)
      => /\ Answered(r)
         /\ req[r].resp.status = 400 \/ req[r].resp.error = "Server configuration error"
         /\ req[r].calls = 0 /\ ~req[r].call.made

\* notes is absent, or a string of nothing but whitespace (the empty string
\* included)
BlankNotes(notes) ==
  \/ notes.t \in {"undefined", "null"}
  \/ notes.t = "chars" /\ \A i \in 1..Len(notes.v) : notes.v[i] = " "

\* C9: a request with contentType 'text' whose notes are missing, empty or
\* whitespace-only is answered 400 before any prompt is built or oracle call
\* is made, and the stored usage is unchanged.
C9_BlankNotesRejected ==
  \A r \in Req :
    (/\ BodyRead(r)
     /\ req[r].body.contentType = Str("text")
     /\ BlankNotes(req[r].body.notes))
      => /\ Answered(r)
         /\ req[r].resp.status = 400
         /\ req[r].resp.error = "Notes are required"
         /\ req[r].prompts = 0 /\ req[r].calls = 0 /\ ~req[r].call.made
         /\ StoreUntouched(r)

\* C9 witness: whitespace-only notes of a metered caller were answered 400
C9_Witness ==
  \E r \in Req :
    /\ Answered(r) /\ req[r].resp.status = 400
    /\ req[r].body.contentType = Str("text")
    /\ req[r].body.notes = Chars(<<" ">>)
    /\ req[r].reads = 2

\* C10: a request with contentType 'images' whose images are missing or an
\* empty list is answered 400 before any prompt is built and before any
\* oracle call.
C10_NoImagesRejected ==
  \A r \in Req :
    (/\ BodyRead(r)
     /\ req[r].body.contentType = Str("images")
     /\ (req[r].body.images.t = "undefined" \/ req[r].body.images = Arr(<<>>)))
      => /\ Answered(r)
         /\ req[r].resp.status = 400
         /\ req[r].resp.error = "Images are required"
         /\ req[r].prompts = 0 /\ req[r].calls = 0 /\ ~req[r].call.made
         /\ StoreUntouched(r)

\* C10 witness: an empty images list was answered 400 although notes were
\* supplied
C10_Witness ==
  \E r \in Req :
    /\ Answered(r) /\ req[r].resp.status = 400
    /\ req[r].body.contentType = Str("images")
    /\ req[r].body.images = Arr(<<>>)
    /\ req[r].body.notes = Chars(<<"a">>)

\* C11 (as claimed): a request with contentType 'images' that carries more
\* than MAX_IMAGES images is answered 400 before any oracle call, and no
\* oracle call carries more than MAX_IMAGES images (the 500 of a server
\* without its API key is not held against the claim).
C11_TooManyImagesRejected ==
  \A r \in Req :
    /\ (/\ BodyRead(r)
        /\ req[r].body.contentType = Str("images")
        /\ req[r].body.images.t = "array"
        /\ Len(req[r].body.images.v) > MAX_IMAGES)
         => /\ Answered(r)
            /\ req[r].resp.status = 400 \/ req[r].resp.error = "Server configuration error"
            /\ req[r].calls = 0 /\ ~req[r].call.made
    /\ req[r].call.imageParts <= MAX_IMAGES

\* the request's prompts were built and its oracle call was made
Generating(r) == req[r].call.made /\ req[r].call.systemPrompt # ""

\* C12: a request that passes the gate and the input validation and asks for
\* fewer than BATCH_THRESHOLD items issues one oracle call, whose prompt asks
\* for the whole number of items requested, and no further call is issued
\* whatever the oracle answers, a failure included.
C12_SingleCallBelowThreshold ==
  \A r \in Req :
    /\ (Generating(r) /\ req[r].pc = "oracle")
         => req[r].call.count =
              (IF req[r].body.numberOfQuestions.t = "undefined"
               THEN DEFAULT_QUESTIONS ELSE req[r].body.numberOfQuestions.v)
    /\ (Generating(r) /\ req[r].call.count < BATCH_THRESHOLD)
         => req[r].calls = 1

\* C12 witness: the one call for BATCH_THRESHOLD - 1 items failed with an
\* upstream error and the request was answered without a second call
C12_Witness ==
  \E r \in Req :
    /\ Answered(r) /\ Generating(r)
    /\ req[r].call.count = BATCH_THRESHOLD - 1
    /\ req[r].outcome.kind = "error" /\ req[r].outcome.status = 500
    /\ req[r].resp.status = 500 /\ req[r].calls = 1

\* the batch sizes the claim prescribes for n items
ClaimedBatchSizes(n) ==
  [i \in 1..NUM_BATCHES |->
     (n \div NUM_BATCHES) + (IF i <= n % NUM_BATCHES THEN 1 ELSE 0)]

\* the number of items each oracle call of the request asks for, in order
CallSizes(r) == [i \in 1..req[r].calls |-> req[r].call.count]

\* C13 (as claimed): a generation of BATCH_THRESHOLD items or more is made of
\* NUM_BATCHES oracle calls whose sizes are floor(n/3)+1 for the first
\* n mod 3 of them and floor(n/3) for the others.
C13_ThreeBatchesFromThreshold ==
  \A r \in Req :
    (Generating(r) /\ req[r].call.count >= BATCH_THRESHOLD)
      => /\ req[r].calls = NUM_BATCHES
         /\ CallSizes(r) = ClaimedBatchSizes(req[r].call.count)

\* C14 (as claimed): a generation of BATCH_THRESHOLD items or more is answered
\* only when all of its NUM_BATCHES batches have completed, and when it is not
\* answered 200 the response carries no item and the stored usage is
\* unchanged.
C14_BatchedAllOrNothing ==
  \A r \in Req :
    (Answered(r) /\ Generating(r) /\ req[r].call.count >= BATCH_THRESHOLD)
      => /\ req[r].calls = NUM_BATCHES
         /\ req[r].resp.status # 200
              => /\ req[r].resp.questions = Undef /\ req[r].resp.cards = Undef
                 /\ StoreUntouched(r)

\* C15 (as claimed): a completion whose finish_reason is 'length' makes the
\* request fail with status 413; its items are not returned and the stored
\* usage is unchanged.
C15_TruncationRejected ==
  \A r \in Req :
    (Answered(r) /\ req[r].outcome.kind = "completion"
       /\ req[r].outcome.finish_reason = "length")
      => /\ req[r].resp.status = 413
         /\ req[r].resp.questions = Undef /\ req[r].resp.cards = Undef
         /\ StoreUntouched(r)

IsText(x) == x.t \in {"string", "chars"}

\* the item has every field the MCQ item type requires, each of its type
WellFormedQuestion(q) ==
  /\ q.t = "object"
  /\ {"id", "question", "options", "correctAnswer", "explanation"} \subseteq DOMAIN q.v
  /\ q.v.id.t = "number"
  /\ IsText(q.v.question) /\ IsText(q.v.correctAnswer) /\ IsText(q.v.explanation)
  /\ q.v.options.t = "array" /\ Len(q.v.options.v) = 4
  /\ \A i \in 1..4 : IsText(q.v.options.v[i])

\* the item has every field the flashcard item type requires, each of its type
WellFormedCard(c) ==
  /\ c.t = "object"
  /\ {"id", "question", "answer"} \subseteq DOMAIN c.v
  /\ c.v.id.t = "number"
  /\ IsText(c.v.question) /\ IsText(c.v.answer)
  /\ "hint" \in DOMAIN c.v => IsText(c.v.hint)

\* the request was answered 200 for a generation of the item type
Succeeded(r, itemType) ==
  /\ Answered(r) /\ req[r].resp.status = 200
  /\ req[r].questionType = Str(itemType)

\* the collection a 200 response carries
Returned(r) ==
  IF req[r].questionType = Str("flashcard")
  THEN req[r].resp.cards ELSE req[r].resp.questions

\* C16 (as claimed): in a 200 response every item of the collection has all
\* the fields of its item type with the right types: for an MCQ id a number,
\* question, correctAnswer and explanation strings, options an array of
\* exactly 4 strings; for a flashcard id a number, question and answer
\* strings, hint a string when present.
C16_OnlyWellFormedItems ==
  \A r \in Req :
    /\ (Succeeded(r, "mcq") /\ Returned(r).t = "array")
         => \A i \in 1..Len(Returned(r).v) : WellFormedQuestion(Returned(r).v[i])
    /\ (Succeeded(r, "flashcard") /\ Returned(r).t = "array")
         => \A i \in 1..Len(Returned(r).v) : WellFormedCard(Returned(r).v[i])

\* the items of the collection the oracle returned: the array under `field`
\* of the payload, or the payload itself when it is an array
OracleItems(r, field) ==
  LET o == req[r].outcome IN
  IF o.kind # "completion" \/ o.content.t # "json" THEN <<>>
  ELSE LET p == o.content.v IN
       IF p.t = "array" THEN p.v
       ELSE IF p.t = "object" /\ field \in DOMAIN p.v /\ p.v[field].t = "array"
       THEN p.v[field].v
       ELSE <<>>

\* the options of the item are not an array of exactly 4 entries
BadOptions(q) ==
  \/ q.t # "object"
  \/ "options" \notin DOMAIN q.v
  \/ q.v.options.t # "array"
  \/ Len(q.v.options.v) # 4

\* C17: an MCQ generation in which some item of the oracle's collection has
\* options that are not an array of exactly 4 entries is never answered 200:
\* the response carries no item and the stored usage is unchanged, whatever
\* the other fields and the other items are.
C17_OptionsMustBeFour ==
  \A r \in Req :
    (/\ Answered(r) /\ req[r].questionType = Str("mcq")
     /\ \E i \in 1..Len(OracleItems(r, "questions")) :
          BadOptions(OracleItems(r, "questions")[i]))
      => /\ req[r].resp.status # 200
         /\ req[r].resp.questions = Undef
         /\ StoreUntouched(r)

\* C17 witness: a collection whose second item has 5 options, everything else
\* well-formed, was answered 500
C17_Witness ==
  \E r \in Req :
    /\ Answered(r) /\ req[r].questionType = Str("mcq")
    /\ OracleItems(r, "questions") = <<GoodQuestion(1), FiveOptions(2)>>
    /\ req[r].resp.status = 500

\* C18 (as claimed): every 200 response of an MCQ or flashcard generation
\* carries a non-empty array of items, whatever JSON payload the oracle
\* returned.
C18_NonEmptyCollection ==
  \A r \in Req :
    (Succeeded(r, "mcq") \/ Succeeded(r, "flashcard"))
      => /\ Returned(r).t = "array"
         /\ Len(Returned(r).v) >= 1

\* C19 (as claimed): in a 200 response the ids of the items are 1, 2, ..., N
\* in response order, whatever ids the oracle emitted.
C19_DenseIds ==
  \A r \in Req :
    ((Succeeded(r, "mcq") \/ Succeeded(r, "flashcard")) /\ Returned(r).t = "array")
      => \A i \in 1..Len(Returned(r).v) :
           LET item == Returned(r).v[i] IN
           /\ item.t = "object" /\ "id" \in DOMAIN item.v
           /\ item.v.id = Num(i)

\* the kind of failure of an answered request, from what happened to it: the
\* session, the stored usage read, the body, the oracle's answer.  Any failure
\* that is none of the named kinds is "Unknown" (a body that is not JSON, a
\* missing API key, an unusable completion, any other upstream error).
ErrorKind(r) ==
  IF req[r].session.user = Null \/ req[r].session.authError THEN "Unauthenticated"
  ELSE IF req[r].reads = 2 /\ req[r].freeUsed >= FREE_GENERATION_LIMIT THEN "QuotaExceeded"
  ELSE IF /\ BodyRead(r)
          /\ \/ req[r].body.contentType = Str("text") /\ BlankNotes(req[r].body.notes)
             \/ /\ req[r].body.contentType = Str("images")
                /\ req[r].body.images.t = "undefined" \/ req[r].body.images = Arr(<<>>)
  THEN "InvalidArgument"
  ELSE IF req[r].outcome.kind = "error" /\ req[r].outcome.status = 401 THEN "UpstreamAuthError"
  ELSE IF req[r].outcome.kind = "error" /\ req[r].outcome.status = 429 THEN "UpstreamRateLimited"
  ELSE "Unknown"

\* the request was answered with an error response
Failed(r) == Answered(r) /\ req[r].resp.status # 200

C21_EmptyNotesWithoutContentType ==
  \A r \in Req :
    (/\ BodyRead(r)
     /\ req[r].body.contentType = Undef
     /\ req[r].body.notes = Chars(<<>>)
     /\ req[r].body.images = Undef)
      => /\ Answered(r)
         /\ req[r].resp.status = 400 \/ req[r].resp.error = "Server configuration error"
         /\ req[r].calls = 0 /\ ~req[r].call.made

\* the questionType of the body is a string other than 'mcq' and 'flashcard'
OtherQuestionType(r) ==
  /\ BodyRead(r)
  /\ req[r].body.questionType.t = "string"
  /\ req[r].body.questionType.v \notin {"mcq", "flashcard"}

\* C27 (as claimed): a request whose questionType is neither 'mcq' nor
\* 'flashcard' causes no oracle call; a request whose oracle call was made
\* for such a questionType is never answered 200 and never writes the usage.
C27_UnknownQuestionTypeStopped ==
  \A r \in Req :
    /\ OtherQuestionType(r) => (req[r].calls = 0 /\ ~req[r].call.made)
    /\ (req[r].call.made /\ req[r].questionType.v \notin {"mcq", "flashcard"})
         => /\ req[r].resp.status # 200
            /\ req[r].pc # "update"
            /\ StoreUntouched(r)

\* C28 (as claimed): max_tokens of every oracle call is
\* min(numberOfQuestions * 200 + 500, 16000) for MCQ and
\* min(numberOfQuestions * 100 + 500, 16000) for flashcards, and lies in
\* 1..16000.
C28_MaxTokensInRange ==
  \A r \in Req :
    (Generating(r) /\ req[r].pc = "oracle")
      => LET n == IF req[r].body.numberOfQuestions.t = "undefined"
                  THEN 50 ELSE req[r].body.numberOfQuestions.v
             linear == IF req[r].questionType = Str("mcq")
                       THEN n * 200 + 500 ELSE n * 100 + 500
         IN /\ req[r].call.max_tokens = (IF linear < 16000 THEN linear ELSE 16000)
            /\ req[r].call.max_tokens \in 1..16000

\* C22: for a file of a supported type, validateFile answers valid = false
\* with the error 'File size must be less than 10MB' exactly when the size
\* is above 10*1024*1024 bytes; a file of exactly 10MB and an empty file are
\* accepted.
C22_FileSizeLimit ==
  (client.validated /\ IsValidType(client.file))
    => /\ (~client.valid /\ client.error = Str("File size must be less than 10MB"))
            <=> client.file.size > 10 * 1024 * 1024
       /\ client.file.size \in {0, 10 * 1024 * 1024}
            => client.valid /\ client.error = Undef

\* C22 witness: a file of exactly 10MB without MIME type, named p.JPG, was
\* accepted
C22_Witness ==
  /\ client.validated /\ client.valid
  /\ client.file.size = 10 * 1024 * 1024
  /\ client.file.type = ""
  /\ client.file.name = <<"p", ".", "J", "P", "G">>

\* the gate let the request through to the reading of its body
GateAdmitted(r) == req[r].pc = "body" \/ req[r].body.given

\* the gate answered 403
GateDenied(r) == Answered(r) /\ req[r].resp.status = 403

\* the page and the request decided for the same signed-in identity over the
\* same state of the store at the same time
SameEntitlementState(r) ==
  /\ client.checked
  /\ Truthy(client.session.user) /\ ~client.session.authError
  /\ req[r].session = client.session
  /\ req[r].isAdmin \/ req[r].checkedAt = client.checkedAt

\* C30: for every entitlement state the decision of hasAccessToGenerate in
\* the page (which sends the user to /subscribe) equals the decision of the
\* server gate to allow a generation.
C30_ClientDecisionEqualsGate ==
  \A r \in Req :
    (SameEntitlementState(r) /\ (GateAdmitted(r) \/ GateDenied(r)))
      => /\ client.canAccess <=> GateAdmitted(r)
         /\ client.redirect = "/subscribe" <=> GateDenied(r)

\* the request is of a signed-in identity that is neither administrator nor
\* subscriber, and its quota check has read the stored counter
Metered(r) ==
  /\ Arrived(r) /\ ~Unauthenticated(req[r].session)
  /\ QuotaLimited(req[r]) /\ req[r].reads = 2

\* the request found the last free generation in the store when it arrived
\* and when its quota check ran, and was answered 200 after its usage write
WonLastFree(r) ==
  /\ Metered(r)
  /\ req[r].stored0 = [row |-> TRUE, free_generations_used |-> FREE_GENERATION_LIMIT - 1]
  /\ req[r].freeUsed = FREE_GENERATION_LIMIT - 1
  /\ Answered(r) /\ req[r].resp.status = 200 /\ req[r].writes = 1

\* C23: two concurrent requests of one free-tier identity whose stored
\* counter is FREE_GENERATION_LIMIT - 1 can both pass the quota check before
\* either writes; a request that has passed is not checked again, so both
\* are answered 200: two generations where one was left, while the counter
\* stops at the limit.
C23_BothPassTheQuotaCheck ==
  /\ \A r \in Req :
       (Metered(r) /\ ~QuotaExceeded(req[r].freeUsed))
         => /\ req[r].resp.status # 403
            /\ (Answered(r) /\ req[r].resp.status = 200) => req[r].writes = 1
  /\ (\A r \in Req : WonLastFree(r))
       => /\ profile.free_generations_used = FREE_GENERATION_LIMIT
          /\ granted >= Cardinality(Req)

\* C23 witness: both requests arrived with one free generation left and both
\* were answered 200
C23_Witness == \A r \in Req : WonLastFree(r)

\* C24 (as claimed): no step lowers the stored free_generations_used.
C24_CounterNeverDecreases ==
  [][profile'.free_generations_used >= profile.free_generations_used]_vars

\* the usage write of request r happens in this step
UsageWrite(r) == req[r].pc = "update" /\ req'[r].pc = "done"

\* C25: a stored counter that is at most FREE_GENERATION_LIMIT stays at most
\* FREE_GENERATION_LIMIT under every interleaving: each usage write stores
\* the value read at the quota check plus 1, and that value was below the
\* limit.
C25_CounterWithinLimit ==
  [][/\ profile.free_generations_used <= FREE_GENERATION_LIMIT
          => profile'.free_generations_used <= FREE_GENERATION_LIMIT
     /\ \A r \in Req :
          UsageWrite(r)
            => /\ profile'.free_generations_used = req[r].freeUsed + 1
               /\ req[r].freeUsed < FREE_GENERATION_LIMIT]_vars

\* C25 witness: one request has written the limit and the other, which also
\* read the last free generation, is about to write
C25_Witness ==
  /\ profile.free_generations_used = FREE_GENERATION_LIMIT
  /\ req["r1"].writes = 1 /\ req["r1"].freeUsed = FREE_GENERATION_LIMIT - 1
  /\ req["r2"].pc = "update" /\ req["r2"].freeUsed = FREE_GENERATION_LIMIT - 1

\* C26: when the requests of a quota-limited identity do not overlap and its
\* counter starts at 0, at most FREE_GENERATION_LIMIT requests are answered
\* 200 in total, the counter counts them, and every request that arrives
\* once the limit is reached is answered 403.
C26_AtMostLimitSuccesses ==
  /\ granted <= FREE_GENERATION_LIMIT
  /\ profile.free_generations_used = granted
  /\ \A r \in Req :
       (Metered(r) /\ req[r].stored0.free_generations_used = FREE_GENERATION_LIMIT)
         => /\ Answered(r)
            /\ req[r].resp.status = 403
            /\ req[r].resp.requiresSubscription
            /\ req[r].calls = 0

\* C26 witness: the limit has been granted and a later request was answered
\* 403
C26_Witness ==
  /\ granted = FREE_GENERATION_LIMIT
  /\ Metered("r1") /\ req["r1"].stored0.free_generations_used = FREE_GENERATION_LIMIT
  /\ req["r1"].resp.status = 403

\* the webhook has processed customer.subscription.deleted and no
\* checkout.session.completed after it
DeletedProcessed ==
  \E i \in 1..Len(stripe.log) :
    /\ stripe.log[i] = "customer.subscription.deleted"
    /\ \A j \in (i + 1)..Len(stripe.log) :
         stripe.log[j] # "checkout.session.completed"

\* the last event the webhook processed is a customer.subscription.updated
\* that stored the status 'canceled'
CanceledStored ==
  /\ stripe.log # <<>>
  /\ stripe.log[Len(stripe.log)] = "customer.subscription.updated"
  /\ subscription.row /\ subscription.status = "canceled"

\* the subscription check of request r happens in this step
SubscriptionCheck(r) == req[r].pc = "subscription" /\ req'[r].pc # "subscription"

\* C29 (as claimed): once the webhook has processed
\* customer.subscription.deleted and no later checkout completes, every
\* request of the non-admin user is metered (its quota check runs) even
\* before current_period_end; after a customer.subscription.updated that
\* stored 'canceled' the user is unmetered exactly until current_period_end
\* passes.
C29_ExpiredMeteredCanceledNot ==
  [][\A r \in Req :
       SubscriptionCheck(r)
         => /\ DeletedProcessed
                => ~req'[r].isSubscribed /\ req'[r].pc = "profile"
            /\ (CanceledStored /\ ~DeletedProcessed)
                => (req'[r].isSubscribed <=> now < subscription.current_period_end)]_vars

====
